---- MODULE Spec2Model ----
EXTENDS Integers, Sequences, FiniteSets, TLC

(***************************************************************************)
(* Model of dw_local_prototype.py: a batch pipeline that reads one         *)
(* spreadsheet per period into staging, integrates and cleans the periods  *)
(* into a core dataset, builds a star schema in SQLite and runs fixed      *)
(* reports.                                                                *)
(*                                                                         *)
(* A DataFrame is a record [cols, rows]: cols the column labels in order   *)
(* (labels may repeat, as pandas allows), rows a sequence of rows, each a  *)
(* sequence of cells aligned with cols.  A cell is [k, n, s]: k is "nan"   *)
(* (NaN / NaT / None), "num" (a number n), "str" (a text s) or "ts" (a     *)
(* Timestamp, n = yyyymmdd).                                               *)
(*                                                                         *)
(* Files on disk are [exists, cols, rows].  A run of the script is the     *)
(* sequence ingest (one step per period), transform, semantic, analyze;    *)
(* an uncaught exception ends the run in pc = "raised".  The raw           *)
(* directory may change between runs; the staging CSVs, the core parquet   *)
(* snapshot and the SQLite tables persist from run to run.                 *)
(*                                                                         *)
(* Input sheets carry every attribute column the script indexes by name    *)
(* (date, exporter, country, subheading, measures); only the two key       *)
(* columns vary in presence and spelling.  Date cells are integers or      *)
(* text, never blank.                                                      *)
(***************************************************************************)

VARIABLES raw, staging_csv, core_parquet, store,
          pc, mi, staging_dfs, core_df, exc, reports, runs

vars == <<raw, staging_csv, core_parquet, store,
          pc, mi, staging_dfs, core_df, exc, reports, runs>>

(* ------------------------------ bounds --------------------------------- *)

\* Total number of data rows over the three periods in the key and
\* attribute input families.
MaxRows == 3

\* Number of runs of the script over the same data directory.
MaxRuns == 2

(* ------------------------------ cells ---------------------------------- *)

NaN == [k |-> "nan", n |-> 0, s |-> ""]

Num(x) == [k |-> "num", n |-> x, s |-> ""]

Str(t) == [k |-> "str", n |-> 0, s |-> t]

Ts(x) == [k |-> "ts", n |-> x, s |-> ""]

IsNull(c) == c.k = "nan"

\* Texts that Python/pandas read as a number, with their value.
NumericText == [t \in {"12", "250", "20250310"} |->
                  CASE t = "12" -> 12 [] t = "250" -> 250 [] OTHER -> 20250310]

IsNumericText(t) == t \in DOMAIN NumericText

(* --------------------------- configuration ----------------------------- *)

MONTHS == <<"2025-01", "2025-02", "2025-03">>

MonthSet == {MONTHS[i] : i \in DOMAIN MONTHS}

\* EXCEL_FILES has a file name for every month of MONTHS.
EXCEL_FILES == [m \in MonthSet |-> TRUE]

KEY_FORM == "NUMERO_FORMULARIO"

KEY_SERIE == "NUMERO_SERIE"

FECHA == "FECHA_DECLARACION_EXPORTACION"

PAIS == "PAIS_DESTINO_FINAL"

FOB_USD == "VALOR_FOB_USD"

required_cols == <<KEY_FORM, KEY_SERIE>>

numeric_cols == <<"CANTIDAD_UNIDADES_FISICAS", "PESO_BRUTO_KGS", "PESO_NETO_KGS",
                  "VALOR_FOB_USD", "VALOR_FOB_PESOS">>

EMPRESA_COLS == <<"NIT_EXPORTADOR", "RAZON_SOCIAL_EXPORTADOR", "DIREC_EXPORTADOR">>

PAIS_COLS == <<"COD_PAIS_DESTINO", "PAIS_DESTINO_FINAL">>

MERCANCIA_COLS == <<"SUBPARTIDA">>

TIME_COLS == <<FECHA>>

FACT_COLS == <<"TIME_ID", "EMPRESA_ID", "PAIS_ID", "MERCANCIA_ID",
               "VALOR_FOB_USD", "PESO_NETO_KGS", "CANTIDAD_UNIDADES_FISICAS",
               "NUMERO_FORMULARIO">>

TABLES == {"DIM_TIME", "DIM_EMPRESA", "DIM_PAIS", "DIM_MERCANCIA", "FACT_EXPORTACIONES"}

QUERIES == <<"q1", "q2", "q3", "a1", "a2">>

(* --------------------------- sequences --------------------------------- *)

Range(s) == {s[i] : i \in DOMAIN s}

\* The sequence s, as an explicit tuple.
Tuple(s) == s \o <<>>

\* The elements of s at the indices in K, in order.
RECURSIVE PickFrom(_, _, _)
PickFrom(s, K, i) ==
  IF i > Len(s) THEN <<>>
  ELSE IF i \in K THEN <<s[i]>> \o PickFrom(s, K, i + 1)
  ELSE PickFrom(s, K, i + 1)

AtIndices(s, K) == PickFrom(s, K, 1)

RECURSIVE Flatten(_)
Flatten(ss) == IF ss = <<>> THEN <<>> ELSE Head(ss) \o Flatten(Tail(ss))

RECURSIVE SumSeq(_)
SumSeq(s) == IF s = <<>> THEN 0 ELSE Head(s) + SumSeq(Tail(s))

(* --------------------------- DataFrames -------------------------------- *)

\* pd.DataFrame()
EmptyFrame == [cols |-> <<>>, rows |-> <<>>]

\* DataFrame.empty: any axis of length 0.
IsEmpty(f) == Len(f.cols) = 0 \/ Len(f.rows) = 0

HasCol(f, name) == \E i \in DOMAIN f.cols : f.cols[i] = name

\* Positions of the columns labelled name.
ColsNamed(f, name) == {i \in DOMAIN f.cols : f.cols[i] = name}

\* The position of the first column labelled name, 0 when there is none.
ColIdx(f, name) ==
  IF HasCol(f, name)
  THEN CHOOSE i \in DOMAIN f.cols : f.cols[i] = name /\ \A j \in 1..(i - 1) : f.cols[j] # name
  ELSE 0

\* The cell at position i of row r (NaN for position 0).
At(r, i) == IF i = 0 THEN NaN ELSE r[i]

\* The cell of row r under the first column labelled name (NaN when absent).
CellOf(f, r, name) == At(r, ColIdx(f, name))

\* Index.str.strip().str.upper() on the labels that occur in the sheets.
StripUpper(l) ==
  CASE l = " num_serie " -> "NUM_SERIE"
    [] l = " numero serie " -> "NUMERO SERIE"
    [] l = "numero_formulario" -> "NUMERO_FORMULARIO"
    [] OTHER -> l

NormalizeColumns(f) == [f EXCEPT !.cols = Tuple([i \in DOMAIN f.cols |-> StripUpper(f.cols[i])])]

\* DataFrame.dropna(how='all')
DropNaAll(f) ==
  [f EXCEPT !.rows =
     AtIndices(f.rows, {i \in DOMAIN f.rows : \E j \in DOMAIN f.rows[i] : ~IsNull(f.rows[i][j])})]

\* DataFrame.rename(columns={old: new})
Rename(f, old, new) ==
  [f EXCEPT !.cols = Tuple([i \in DOMAIN f.cols |-> IF f.cols[i] = old THEN new ELSE f.cols[i]])]

\* Every cell replaced by G(label of its column, cell).
MapCells(f, G(_, _)) ==
  [f EXCEPT !.rows =
     Tuple([r \in DOMAIN f.rows |-> Tuple([j \in DOMAIN f.cols |-> G(f.cols[j], f.rows[r][j])])])]

\* The union of the frames' columns in order of first appearance.
RECURSIVE UnionCols(_)
UnionCols(dfs) ==
  IF dfs = <<>> THEN <<>>
  ELSE LET rest == UnionCols(SubSeq(dfs, 1, Len(dfs) - 1))
           last == dfs[Len(dfs)]
       IN rest \o AtIndices(last.cols, {i \in DOMAIN last.cols : last.cols[i] \notin Range(rest)})

\* The rows of df laid out under cols, NaN where df has no such column.
Reindex(df, cols) ==
  LET pos == Tuple([j \in DOMAIN cols |-> ColIdx(df, cols[j])])
  IN Tuple([r \in DOMAIN df.rows |-> Tuple([j \in DOMAIN cols |-> At(df.rows[r], pos[j])])])

\* pd.concat(dfs, ignore_index=True) of a non-empty list.
Concat(dfs) ==
  LET cols == UnionCols(dfs)
  IN [cols |-> cols, rows |-> Flatten([i \in DOMAIN dfs |-> Reindex(dfs[i], cols)])]

\* The cells of each row under every column whose label is in subset.
KeysOf(f, subset) ==
  LET at == {j \in DOMAIN f.cols : f.cols[j] \in Range(subset)}
  IN Tuple([i \in DOMAIN f.rows |-> AtIndices(f.rows[i], at)])

\* Variant: keep='last'.
DropDuplicatesKeepLast(f, subset) ==
  LET keys == KeysOf(f, subset)
  IN [f EXCEPT !.rows =
        AtIndices(f.rows, {i \in DOMAIN f.rows : \A j \in DOMAIN f.rows : j > i => keys[j] # keys[i]})]

\* Variant: no row is dropped.
DropDuplicatesNone(f, subset) == f

\* DataFrame.drop_duplicates(subset=...), keep='first'; nulls compare equal.
DropDuplicates(f, subset) ==
  LET keys == KeysOf(f, subset)
  IN [f EXCEPT !.rows =
        AtIndices(f.rows, {i \in DOMAIN f.rows : \A j \in 1..(i - 1) : keys[j] # keys[i]})]

\* df[names]
Project(f, names) == [cols |-> names, rows |-> Reindex(f, names)]


(* --------------------------- cleaning ---------------------------------- *)

IsLeap(y) == (y % 4 = 0 /\ y % 100 # 0) \/ y % 400 = 0

DaysIn(y, m) ==
  IF m = 2 THEN (IF IsLeap(y) THEN 29 ELSE 28)
  ELSE IF m \in {4, 6, 9, 11} THEN 30 ELSE 31

\* strptime(text, '%Y%m%d') on the eight digits of x, within Timestamp's years.
ParseYMD(x) ==
  LET y == x \div 10000
      m == (x \div 100) % 100
      d == x % 100
  IN IF x >= 10000000 /\ x <= 99999999 /\ y >= 1678 /\ y <= 2261
        /\ m >= 1 /\ m <= 12 /\ d >= 1 /\ d <= DaysIn(y, m)
     THEN Ts(x) ELSE NaN

\* pd.to_datetime(col.astype(str), format='%Y%m%d', errors='coerce'), per cell.
ToDatetime(c) ==
  CASE c.k = "num" -> ParseYMD(c.n)
    [] c.k = "str" -> IF IsNumericText(c.s) THEN ParseYMD(NumericText[c.s]) ELSE NaN
    [] c.k = "ts" -> NaN
    [] OTHER -> NaN

\* pd.to_numeric(col, errors='coerce'), per cell.
ToNumeric(c) ==
  CASE c.k = "num" -> c
    [] c.k = "str" -> IF IsNumericText(c.s) THEN Num(NumericText[c.s]) ELSE NaN
    [] OTHER -> NaN

\* Series.fillna(v), per cell.
FillNa(c, v) == IF IsNull(c) THEN v ELSE c

\* Lines 95-98: the date column is parsed.
ParseDates(f) ==
  LET G(label, c) == IF label = FECHA THEN ToDatetime(c) ELSE c
  IN MapCells(f, G)

\* Lines 102-104: every numeric column that is present is coerced.
CoerceNumeric(f) ==
  LET G(label, c) == IF label \in Range(numeric_cols) THEN ToNumeric(c) ELSE c
  IN MapCells(f, G)

\* Variant: only the numeric columns are filled.
FillNullsNumericOnly(f) ==
  LET G(label, c) == IF label \in Range(numeric_cols) THEN FillNa(c, Num(0)) ELSE c
  IN MapCells(f, G)

\* Lines 110-114: numeric nulls become 0, a null country name "Unknown".
FillNulls(f) ==
  LET G(label, c) == IF label \in Range(numeric_cols) THEN FillNa(c, Num(0))
                     ELSE IF label = PAIS THEN FillNa(c, Str("Unknown"))
                     ELSE c
  IN MapCells(f, G)

(* --------------------------- transform --------------------------------- *)

\* [df for df in staging_dfs.values() if not df.empty], in insertion order.
NonEmptyFrames(dfs) ==
  LET keep == AtIndices(dfs, {i \in DOMAIN dfs : ~IsEmpty(dfs[i].df)})
  IN Tuple([i \in DOMAIN keep |-> keep[i].df])

\* Lines 77-83: normalise the labels, then rename one alternate spelling.
ReconcileColumns(all) ==
  LET n == NormalizeColumns(all)
  IN IF HasCol(n, "NUM_SERIE") THEN Rename(n, "NUM_SERIE", KEY_SERIE)
     ELSE IF HasCol(n, "NUMERO SERIE") THEN Rename(n, "NUMERO SERIE", KEY_SERIE)
     ELSE n

\* Variant: only the form number is required.
MissingKeysFormOnly(all) == {c \in {KEY_FORM} : ~HasCol(all, c)}

\* Line 87: the required columns that are absent.
MissingKeys(all) == {c \in Range(required_cols) : ~HasCol(all, c)}

\* Lines 95-114 on the reconciled data.
CleanCore(all) ==
  FillNulls(DropDuplicates(CoerceNumeric(ParseDates(all)), required_cols))

\* pyarrow refuses a frame whose column labels repeat.
ParquetWritable(f) == \A i, j \in DOMAIN f.cols : f.cols[i] = f.cols[j] => i = j

Returned(df, wrote) == [exc |-> "", df |-> df, wrote |-> wrote]

Raised(e) == [exc |-> e, df |-> EmptyFrame, wrote |-> FALSE]

\* transform_to_core: what it returns or raises, and whether it wrote the snapshot.
TransformToCore(dfs) ==
  LET frames == NonEmptyFrames(dfs)
  IN IF frames = <<>> THEN Raised("ValueError: No objects to concatenate")
     ELSE LET all_data == Concat(frames)
              rec == ReconcileColumns(all_data)
          IN IF IsEmpty(all_data) THEN Returned(EmptyFrame, FALSE)
             ELSE IF MissingKeys(rec) # {} THEN Returned(EmptyFrame, FALSE)
             ELSE IF ~HasCol(rec, FECHA) THEN Raised("KeyError: FECHA_DECLARACION_EXPORTACION")
             ELSE LET clean == CleanCore(rec)
                  IN IF ParquetWritable(clean) THEN Returned(clean, TRUE)
                     ELSE Raised("ValueError: Duplicate column names found")


(* --------------------------- semantic layer ---------------------------- *)

\* Variant: without drop_duplicates.
DimensionNoDistinct(core, attrs, id) ==
  LET d == Project(core, attrs)
  IN [cols |-> attrs \o <<id>>,
      rows |-> Tuple([i \in DOMAIN d.rows |-> d.rows[i] \o <<Num(i)>>])]

\* core_df[attrs].drop_duplicates().reset_index(drop=True); id = index + 1.
Dimension(core, attrs, id) ==
  LET d == DropDuplicates(Project(core, attrs), attrs)
  IN [cols |-> attrs \o <<id>>,
      rows |-> Tuple([i \in DOMAIN d.rows |-> d.rows[i] \o <<Num(i)>>])]

\* Series.dt.year / .dt.month / .dt.day
DtYear(c) == IF c.k = "ts" THEN Num(c.n \div 10000) ELSE NaN

DtMonth(c) == IF c.k = "ts" THEN Num((c.n \div 100) % 100) ELSE NaN

DtDay(c) == IF c.k = "ts" THEN Num(c.n % 100) ELSE NaN

\* Lines 133-137.
DimTime(core) ==
  LET d == Dimension(core, TIME_COLS, "TIME_ID")
  IN [cols |-> d.cols \o <<"YEAR", "MONTH", "DAY">>,
      rows |-> Tuple([i \in DOMAIN d.rows |->
                  d.rows[i] \o <<DtYear(d.rows[i][1]), DtMonth(d.rows[i][1]), DtDay(d.rows[i][1])>>])]

\* Inner join of left and right on the columns on, in the order of left;
\* pandas matches null keys with each other, SQL never does.
JoinOn(left, right, on, nullsMatch) ==
  LET extra == {j \in DOMAIN right.cols : right.cols[j] \notin Range(on)}
      lk == Reindex(left, on)
      rk == Reindex(right, on)
      tail == Tuple([k \in DOMAIN right.rows |-> AtIndices(right.rows[k], extra)])
      matching(i) == {k \in DOMAIN right.rows :
                        /\ lk[i] = rk[k]
                        /\ (nullsMatch \/ \A c \in DOMAIN on : ~IsNull(lk[i][c]))}
      joined(i) == LET m == AtIndices(tail, matching(i))
                   IN [k \in DOMAIN m |-> left.rows[i] \o m[k]]
  IN [cols |-> left.cols \o AtIndices(right.cols, extra),
      rows |-> Flatten([i \in DOMAIN left.rows |-> joined(i)])]

\* Variant: null keys match nothing, as in SQL.
MergeSqlNulls(left, right, on) == JoinOn(left, right, on, FALSE)

\* DataFrame.merge(right, on=on): inner, null keys match.
Merge(left, right, on) == JoinOn(left, right, on, TRUE)

\* Lines 156-165.
FactExportaciones(core, dim_time, dim_empresa, dim_pais, dim_mercancia) ==
  Project(Merge(Merge(Merge(Merge(core, dim_time, TIME_COLS),
                            dim_empresa, EMPRESA_COLS),
                      dim_pais, PAIS_COLS),
                dim_mercancia, MERCANCIA_COLS),
          FACT_COLS)

NoTable == [exists |-> FALSE, cols |-> <<>>, rows |-> <<>>]

\* DataFrame.to_sql(name, conn, if_exists='replace', index=False)
ToSql(f) == [exists |-> TRUE, cols |-> f.cols, rows |-> f.rows]

\* The five tables build_semantic_layer writes for a non-empty core_df.
SemanticTables(core) ==
  LET dim_time == DimTime(core)
      dim_empresa == Dimension(core, EMPRESA_COLS, "EMPRESA_ID")
      dim_pais == Dimension(core, PAIS_COLS, "PAIS_ID")
      dim_mercancia == Dimension(core, MERCANCIA_COLS, "MERCANCIA_ID")
  IN [t \in TABLES |->
        CASE t = "DIM_TIME" -> ToSql(dim_time)
          [] t = "DIM_EMPRESA" -> ToSql(dim_empresa)
          [] t = "DIM_PAIS" -> ToSql(dim_pais)
          [] t = "DIM_MERCANCIA" -> ToSql(dim_mercancia)
          [] OTHER -> ToSql(FactExportaciones(core, dim_time, dim_empresa, dim_pais, dim_mercancia))]

\* Variant: without the guard of lines 125-127.
BuildSemanticLayerAlways(core, st) == SemanticTables(core)

\* Lines 125-127: an empty core_df writes nothing.
BuildSemanticLayer(core, st) == IF IsEmpty(core) THEN st ELSE SemanticTables(core)

(* ------------------------------ reports -------------------------------- *)

\* The tables each report reads, and its join, filter, grouping and measure.
QueryTables(q) ==
  CASE q = "q1" -> <<"DIM_TIME", "DIM_EMPRESA">>
    [] q = "q2" -> <<"DIM_TIME">>
    [] q = "q3" -> <<"DIM_TIME", "DIM_PAIS">>
    [] q = "a1" -> <<"DIM_MERCANCIA">>
    [] OTHER -> <<"DIM_PAIS">>

TableId(t) ==
  CASE t = "DIM_TIME" -> "TIME_ID"
    [] t = "DIM_EMPRESA" -> "EMPRESA_ID"
    [] t = "DIM_PAIS" -> "PAIS_ID"
    [] OTHER -> "MERCANCIA_ID"

QueryGroup(q) ==
  CASE q = "q1" -> <<"RAZON_SOCIAL_EXPORTADOR">>
    [] q = "q2" -> <<"YEAR", "MONTH">>
    [] q = "q3" -> <<"PAIS_DESTINO_FINAL">>
    [] q = "a1" -> <<"SUBPARTIDA">>
    [] OTHER -> <<"PAIS_DESTINO_FINAL">>

QueryMeasure(q) == IF q = "a2" THEN "PESO_NETO_KGS" ELSE "VALOR_FOB_USD"

QueryWhere(q, j, r) ==
  CASE q = "q1" -> CellOf(j, r, "YEAR") = Num(2025) /\ CellOf(j, r, "MONTH") = Num(3)
    [] q = "q3" -> /\ CellOf(j, r, "YEAR") = Num(2025)
                   /\ CellOf(j, r, "MONTH").k = "num"
                   /\ CellOf(j, r, "MONTH").n >= 1
                   /\ CellOf(j, r, "MONTH").n <= 3
    [] OTHER -> TRUE

RECURSIVE SqlJoinAll(_, _, _)
SqlJoinAll(st, j, ts) ==
  IF ts = <<>> THEN j
  ELSE SqlJoinAll(st, JoinOn(j, st[Head(ts)], <<TableId(Head(ts))>>, FALSE), Tail(ts))

\* SUM(measure) ... GROUP BY group over the joined, filtered rows.  The
\* result is the set of its rows: within the bounds there are fewer than
\* ten groups, so ORDER BY ... LIMIT 10 selects them all.
RunQuery(st, q) ==
  LET j == SqlJoinAll(st, st["FACT_EXPORTACIONES"], QueryTables(q))
      sel == AtIndices(j.rows, {i \in DOMAIN j.rows : QueryWhere(q, j, j.rows[i])})
      keys == Reindex([cols |-> j.cols, rows |-> sel], QueryGroup(q))
      mpos == ColIdx(j, QueryMeasure(q))
      amount(r) == IF At(r, mpos).k = "num" THEN At(r, mpos).n ELSE 0
      total(g) == SumSeq([i \in DOMAIN sel |-> IF keys[i] = g THEN amount(sel[i]) ELSE 0])
  IN {[key |-> g, total |-> total(g)] : g \in Range(keys)}

NotRun == [status |-> "notrun", rows |-> {}]

NoSuchTable == [status |-> "no such table", rows |-> {}]

NoReports == [q \in Range(QUERIES) |-> NotRun]

\* query_dw(q): pd.read_sql_query raises when a table it names is absent.
QueryFails(st, q) ==
  \/ ~st["FACT_EXPORTACIONES"].exists
  \/ \E t \in Range(QueryTables(q)) : ~st[t].exists

\* analyze_data: the reports in order, up to the first one that raises.
AnalyzeData(st) ==
  LET failing == {i \in DOMAIN QUERIES : QueryFails(st, QUERIES[i])}
      first == IF failing = {} THEN Len(QUERIES) + 1
               ELSE CHOOSE i \in failing : \A k \in failing : i <= k
      pos(q) == CHOOSE i \in DOMAIN QUERIES : QUERIES[i] = q
  IN [q \in Range(QUERIES) |->
        IF pos(q) < first THEN [status |-> "ok", rows |-> RunQuery(st, q)]
        ELSE IF pos(q) = first THEN NoSuchTable
        ELSE NotRun]


(* ------------------------------ ingestion ------------------------------ *)

MissingFile == [exists |-> FALSE, cols |-> <<>>, rows |-> <<>>]

\* DataFrame.to_csv / DataFrame.to_parquet: the file holds the frame.
ToFile(f) == [exists |-> TRUE, cols |-> f.cols, rows |-> f.rows]

\* Variant: without the except clause of lines 39-41.
ReadExcelNoCatch(file) ==
  IF ~file.exists THEN Raised("FileNotFoundError")
  ELSE Returned(NormalizeColumns(DropNaAll([cols |-> file.cols, rows |-> file.rows])), TRUE)

\* read_excel_to_staging: a missing file is caught and gives an empty frame;
\* a sheet is stripped of blank rows, its labels normalised, and saved.
ReadExcelToStaging(file) ==
  IF ~file.exists THEN Returned(EmptyFrame, FALSE)
  ELSE Returned(NormalizeColumns(DropNaAll([cols |-> file.cols, rows |-> file.rows])), TRUE)

(* ------------------------------ inputs --------------------------------- *)

ATTR_COLS == <<FECHA, "NIT_EXPORTADOR", "RAZON_SOCIAL_EXPORTADOR", "DIREC_EXPORTADOR",
               "COD_PAIS_DESTINO", PAIS, "SUBPARTIDA",
               "CANTIDAD_UNIDADES_FISICAS", "PESO_BRUTO_KGS", "PESO_NETO_KGS",
               "VALOR_FOB_USD", "VALOR_FOB_PESOS">>

\* Four kinds of declaration line, as the cells under ATTR_COLS.
RowKinds == {"plain", "gaps", "nulls", "text"}

Kind(k) ==
  CASE k = "plain" -> <<Num(20250115), Num(900), Str("ACME"), Str("CL 1"), Str("US"), Str("USA"),
                        Num(901), Num(5), Num(12), Num(10), Num(100), Num(400)>>
    [] k = "gaps" -> <<Num(20250310), Num(900), Str("ACME SAS"), Str("CL 1"), Str("US"), NaN,
                       Num(901), NaN, Str("n/a"), Str("12"), Str("250"), NaN>>
    [] k = "nulls" -> <<Num(20251340), Num(900), Str("ACME"), Str("CL 1"), NaN, NaN,
                        NaN, Num(7), Num(3), NaN, Str("abc"), Num(50)>>
    [] OTHER -> <<Str("20250310"), Num(800), Str("BETA"), NaN, Str("US"), Str("USA"),
                  Num(902), Num(4), Num(9), Num(8), Num(60), NaN>>

FobPos == CHOOSE j \in DOMAIN ATTR_COLS : ATTR_COLS[j] = FOB_USD

\* A FOB value that names the line's place in the input: period i, row r.
Tag(i, r) == 100 * i + r

Tagged(attrs, i, r) == [attrs EXCEPT ![FobPos] = Num(Tag(i, r))]

Header(formLabel, serieLabel) ==
  (IF formLabel = "" THEN <<>> ELSE <<formLabel>>)
  \o (IF serieLabel = "" THEN <<>> ELSE <<serieLabel>>) \o ATTR_COLS

\* A sheet whose key columns carry the given labels ("": no such column).
Sheet(formLabel, serieLabel, lines) ==
  [exists |-> TRUE,
   cols |-> Header(formLabel, serieLabel),
   rows |-> [r \in DOMAIN lines |->
               (IF formLabel = "" THEN <<>> ELSE <<lines[r].form>>)
               \o (IF serieLabel = "" THEN <<>> ELSE <<lines[r].serie>>)
               \o lines[r].attrs]]

Idx(m) == CHOOSE i \in DOMAIN MONTHS : MONTHS[i] = m

\* Sequences of k elements of S, each cut into three periods at a <= b.
CutsOfLen(S, k) ==
  {x \in {[s |-> s, a |-> a, b |-> b] : s \in [1..k -> S], a \in 0..k, b \in 0..k} : x.a <= x.b}

Cuts(S, n) == UNION {CutsOfLen(S, k) : k \in 0..n}

Segment(x, i) ==
  CASE i = 1 -> SubSeq(x.s, 1, x.a)
    [] i = 2 -> SubSeq(x.s, x.a + 1, x.b)
    [] OTHER -> SubSeq(x.s, x.b + 1, Len(x.s))

\* Key family: canonical labels, keys from a small set, every line tagged.
KeyPairs == {<<f, n>> : f \in {1, 2}, n \in {1, 2}}

KeyFile(i, keys) ==
  IF keys = <<>> THEN MissingFile
  ELSE Sheet(KEY_FORM, KEY_SERIE,
             [r \in DOMAIN keys |->
                [form |-> Num(keys[r][1]), serie |-> Num(keys[r][2]), attrs |-> Tagged(Kind("plain"), i, r)]])

KeyInputs ==
  {[m \in MonthSet |-> KeyFile(Idx(m), Segment(x, Idx(m)))] : x \in Cuts(KeyPairs, MaxRows)}

\* Spelling family: each period is missing or a sheet of at most one line
\* that labels its serial column in one of the spellings met in the sheets.
SerieLabels == {"NUMERO_SERIE", "NUM_SERIE", " numero serie "}

SchemaChoices ==
  {[present |-> FALSE, label |-> "", ser |-> <<>>]}
  \cup {[present |-> TRUE, label |-> l, ser |-> s] :
          l \in SerieLabels, s \in {<<>>, <<1>>, <<2>>}}

SchemaFile(i, c) ==
  IF ~c.present THEN MissingFile
  ELSE Sheet(KEY_FORM, c.label,
             [r \in DOMAIN c.ser |->
                [form |-> Num(1), serie |-> Num(c.ser[r]), attrs |-> Tagged(Kind("plain"), i, r)]])

SchemaInputs ==
  {[m \in MonthSet |-> SchemaFile(Idx(m), c[m])] : c \in [MonthSet -> SchemaChoices]}

\* Attribute family: canonical labels, a key of its own per line, the
\* attributes of one of the five kinds.
AttrFile(i, kinds) ==
  IF kinds = <<>> THEN MissingFile
  ELSE Sheet(KEY_FORM, KEY_SERIE,
             [r \in DOMAIN kinds |-> [form |-> Num(i), serie |-> Num(r), attrs |-> Kind(kinds[r])]])

AttrInputs ==
  {[m \in MonthSet |-> AttrFile(Idx(m), Segment(x, Idx(m)))] : x \in Cuts(RowKinds, MaxRows)}

\* Run family: each period's file is missing, good, lacks a key column, or
\* holds only a blank row.
FileChoices == {"missing", "good", "noform", "noserie", "blank"}

MonthLine(i) ==
  [form |-> Num(i), serie |-> Num(1),
   attrs |-> [Tagged(Kind("plain"), i, 1) EXCEPT ![1] = Num(20250015 + 100 * i)]]

BlankLine == [form |-> NaN, serie |-> NaN, attrs |-> [j \in DOMAIN ATTR_COLS |-> NaN]]

RawFile(i, c) ==
  CASE c = "missing" -> MissingFile
    [] c = "good" -> Sheet(KEY_FORM, KEY_SERIE, <<MonthLine(i)>>)
    [] c = "noform" -> Sheet("", KEY_SERIE, <<MonthLine(i)>>)
    [] c = "noserie" -> Sheet(KEY_FORM, "", <<MonthLine(i)>>)
    [] OTHER -> Sheet(KEY_FORM, KEY_SERIE, <<BlankLine>>)

RunInputs ==
  {[m \in MonthSet |-> RawFile(Idx(m), c[m])] : c \in [MonthSet -> FileChoices]}

(* ------------------------------ the script ----------------------------- *)

Fresh ==
  /\ staging_csv = [m \in MonthSet |-> MissingFile]
  /\ core_parquet = MissingFile
  /\ store = [t \in TABLES |-> NoTable]
  /\ pc = "ingest"
  /\ mi = 1
  /\ staging_dfs = <<>>
  /\ core_df = EmptyFrame
  /\ exc = ""
  /\ reports = NoReports
  /\ runs = 1

Init == raw \in RunInputs /\ Fresh

InitIntegration == raw \in (KeyInputs \cup SchemaInputs) /\ Fresh

InitSemantic == raw \in AttrInputs /\ Fresh

\* One iteration of ingest_to_staging's loop over MONTHS.
IngestToStaging ==
  /\ pc = "ingest"
  /\ LET month == MONTHS[mi]
         res == ReadExcelToStaging(raw[month])
     IN /\ staging_dfs' = IF EXCEL_FILES[month] /\ res.exc = ""
                          THEN Append(staging_dfs, [month |-> month, df |-> res.df])
                          ELSE staging_dfs
        /\ staging_csv' = IF EXCEL_FILES[month] /\ res.wrote
                          THEN [staging_csv EXCEPT ![month] = ToFile(res.df)]
                          ELSE staging_csv
        /\ exc' = IF EXCEL_FILES[month] THEN res.exc ELSE ""
        /\ pc' = IF EXCEL_FILES[month] /\ res.exc # "" THEN "raised"
                 ELSE IF mi = Len(MONTHS) THEN "transform" ELSE "ingest"
        /\ mi' = mi + 1
  /\ UNCHANGED <<raw, core_parquet, store, core_df, reports, runs>>

\* core_df = transform_to_core(staging_dfs)
Transform ==
  /\ pc = "transform"
  /\ LET res == TransformToCore(staging_dfs)
     IN /\ core_df' = res.df
        /\ core_parquet' = IF res.wrote THEN ToFile(res.df) ELSE core_parquet
        /\ exc' = res.exc
        /\ pc' = IF res.exc # "" THEN "raised" ELSE "semantic"
  /\ UNCHANGED <<raw, staging_csv, store, mi, staging_dfs, reports, runs>>

\* build_semantic_layer(core_df)
Semantic ==
  /\ pc = "semantic"
  /\ store' = BuildSemanticLayer(core_df, store)
  /\ pc' = "analyze"
  /\ UNCHANGED <<raw, staging_csv, core_parquet, mi, staging_dfs, core_df, exc, reports, runs>>

\* analyze_data()
Analyze ==
  /\ pc = "analyze"
  /\ LET res == AnalyzeData(store)
         failed == \E q \in DOMAIN res : res[q] = NoSuchTable
     IN /\ reports' = res
        /\ exc' = IF failed THEN "DatabaseError: no such table" ELSE ""
        /\ pc' = IF failed THEN "raised" ELSE "done"
  /\ UNCHANGED <<raw, staging_csv, core_parquet, store, mi, staging_dfs, core_df, runs>>

\* Between two runs one period's raw file is added, replaced or removed; the
\* next run starts with fresh in-memory state over the same data directory.
Restart ==
  /\ pc \in {"done", "raised"}
  /\ runs < MaxRuns
  /\ \E m \in MonthSet, c \in FileChoices : raw' = [raw EXCEPT ![m] = RawFile(Idx(m), c)]
  /\ runs' = runs + 1
  /\ pc' = "ingest"
  /\ mi' = 1
  /\ staging_dfs' = <<>>
  /\ core_df' = EmptyFrame
  /\ exc' = ""
  /\ reports' = NoReports
  /\ UNCHANGED <<staging_csv, core_parquet, store>>

RunNext == IngestToStaging \/ Transform \/ Semantic \/ Analyze

Next == RunNext \/ Restart

Spec == Init /\ [][Next]_vars

SpecIntegration == InitIntegration /\ [][RunNext]_vars

SpecSemantic == InitSemantic /\ [][RunNext]_vars


(* ------------------------------ properties ----------------------------- *)

\* Where a run stands.
Ingested == pc \notin {"ingest"} /\ Len(staging_dfs) = Len(MONTHS)

TransformReturned ==
  \/ pc \in {"semantic", "analyze", "done"}
  \/ pc = "raised" /\ exc = "DatabaseError: no such table"

TransformEnded == pc \notin {"ingest", "transform"} /\ Len(staging_dfs) = Len(MONTHS)

BuiltThisRun == pc \in {"analyze", "done"} /\ ~IsEmpty(core_df)

\* The staged frames that take part in the concatenation, and their labels.
StagedData == {k \in DOMAIN staging_dfs : ~IsEmpty(staging_dfs[k].df)}

StagedLabels == UNION {Range(staging_dfs[k].df.cols) : k \in StagedData}

SerieSpellings == {"NUMERO_SERIE", "NUM_SERIE", "NUMERO SERIE"}

AllStagedEmpty == StagedData = {}

KeysAbsent ==
  /\ StagedData # {}
  /\ (KEY_FORM \notin StagedLabels \/ StagedLabels \cap SerieSpellings = {})

CoreRows == DOMAIN core_df.rows

CoreCell(i, name) == CellOf(core_df, core_df.rows[i], name)

\* The staged lines, as <<period position, row position>>.
StagedLines == UNION {{<<k, i>> : i \in DOMAIN staging_dfs[k].df.rows} : k \in StagedData}

StagedCell(l, name) == CellOf(staging_dfs[l[1]].df, staging_dfs[l[1]].df.rows[l[2]], name)

StagedPair(l) == <<StagedCell(l, KEY_FORM), StagedCell(l, KEY_SERIE)>>

CorePair(i) == <<CoreCell(i, KEY_FORM), CoreCell(i, KEY_SERIE)>>

Precedes(l, m) == l[1] < m[1] \/ (l[1] = m[1] /\ l[2] < m[2])

(* C1: whenever transform_to_core returns a non-empty dataset, it has the   *)
(* two key columns and no two of its rows agree on both NUMERO_FORMULARIO   *)
(* and NUMERO_SERIE.                                                        *)
C1_UniquePairs ==
  (TransformReturned /\ ~IsEmpty(core_df)) =>
     /\ ColsNamed(core_df, KEY_FORM) # {}
     /\ ColsNamed(core_df, KEY_SERIE) # {}
     /\ \A a \in ColsNamed(core_df, KEY_FORM), b \in ColsNamed(core_df, KEY_SERIE) :
          \A i, j \in CoreRows :
             (core_df.rows[i][a] = core_df.rows[j][a] /\ core_df.rows[i][b] = core_df.rows[j][b])
                => i = j

\* Deduplication dropped a staged line and still kept two rows.
C1_Witness ==
  /\ TransformReturned
  /\ Len(core_df.rows) >= 2
  /\ Cardinality(StagedLines) > Len(core_df.rows)

(* C2: when the staged periods carry both key columns under their canonical *)
(* labels, every (form, serial) pair among the staged lines is kept exactly *)
(* once, and the row kept is the first line with that pair in the order of  *)
(* MONTHS and, within a period, of the sheet: it carries that line's FOB.   *)
CanonicalKeys ==
  \A k \in StagedData : HasCol(staging_dfs[k].df, KEY_FORM) /\ HasCol(staging_dfs[k].df, KEY_SERIE)

C2_FirstWins ==
  (TransformReturned /\ ~IsEmpty(core_df) /\ CanonicalKeys) =>
     /\ \A k \in DOMAIN staging_dfs : staging_dfs[k].month = MONTHS[k]
     /\ \A l \in StagedLines :
          \E i \in CoreRows :
             /\ CorePair(i) = StagedPair(l)
             /\ \A j \in CoreRows : CorePair(j) = StagedPair(l) => j = i
             /\ \E f \in StagedLines :
                  /\ StagedPair(f) = StagedPair(l)
                  /\ \A m \in StagedLines : StagedPair(m) = StagedPair(l) => ~Precedes(m, f)
                  /\ CoreCell(i, FOB_USD) = StagedCell(f, FOB_USD)

\* The same pair occurs in two periods and twice within one period, with
\* different FOB values.
C2_Witness ==
  /\ TransformReturned /\ ~IsEmpty(core_df) /\ CanonicalKeys
  /\ \E l, m, n \in StagedLines :
       /\ l[1] < m[1] /\ m[1] = n[1] /\ m[2] < n[2]
       /\ StagedPair(l) = StagedPair(m) /\ StagedPair(m) = StagedPair(n)
       /\ StagedCell(l, FOB_USD) # StagedCell(m, FOB_USD)

(* C3: if every period's staging dataset is empty, transform_to_core        *)
(* returns an empty dataset without raising (so the run goes on to          *)
(* build_semantic_layer, which writes nothing).                             *)
C3_EmptyReturnsEmpty ==
  (TransformEnded /\ AllStagedEmpty) => (TransformReturned /\ IsEmpty(core_df))

(* C4: whenever some staged period labels its serial column NUM_SERIE or    *)
(* NUMERO SERIE (every staged period having the form column and a serial    *)
(* column under some spelling), transform_to_core produces a dataset with   *)
(* exactly one column NUMERO_SERIE and every surviving row holds under it   *)
(* the serial its source line had under its own period's spelling.          *)
SerieLabelOf(k) ==
  CHOOSE c \in SerieSpellings : HasCol(staging_dfs[k].df, c)

C4_SerieReconciled ==
  (/\ TransformEnded
   /\ StagedData # {}
   /\ \A k \in StagedData :
        /\ HasCol(staging_dfs[k].df, KEY_FORM)
        /\ \E c \in SerieSpellings : HasCol(staging_dfs[k].df, c)
   /\ \E k \in StagedData : ~HasCol(staging_dfs[k].df, KEY_SERIE))
  =>
  (/\ TransformReturned
   /\ ~IsEmpty(core_df)
   /\ Cardinality(ColsNamed(core_df, KEY_SERIE)) = 1
   /\ \A i \in CoreRows :
        \E l \in StagedLines :
           /\ StagedCell(l, FOB_USD) = CoreCell(i, FOB_USD)
           /\ StagedCell(l, SerieLabelOf(l[1])) = CoreCell(i, KEY_SERIE))


(* C5: when NUMERO_FORMULARIO or NUMERO_SERIE is no column of the           *)
(* concatenated data after reconciliation, transform_to_core returns the    *)
(* empty dataset without raising and leaves the core snapshot file as it    *)
(* was, and build_semantic_layer, given an empty dataset, leaves every      *)
(* table as it was.                                                         *)
C5_HardStop ==
  [][/\ (pc = "transform" /\ KeysAbsent) =>
          (/\ pc' = "semantic"
           /\ exc' = ""
           /\ core_df' = EmptyFrame
           /\ core_parquet' = core_parquet)
     /\ (pc = "semantic" /\ IsEmpty(core_df)) => store' = store]_vars

\* A run without key columns has passed build_semantic_layer over a
\* snapshot and tables that an earlier run wrote; both spellings of the
\* failure occur (no form column, no serial column).
C5_Witness ==
  /\ pc = "analyze"
  /\ KeysAbsent
  /\ KEY_FORM \in StagedLabels
  /\ core_df = EmptyFrame
  /\ core_parquet.exists
  /\ store["FACT_EXPORTACIONES"].exists

(* C6 as stated, for its case of missing key columns: after a run that      *)
(* produced no core dataset the reports are attempted and each fails with   *)
(* "no such table" or returns no row, whatever an earlier run left in the   *)
(* warehouse.                                                               *)
C6_ReportsFailOrEmpty ==
  (pc \in {"done", "raised"} /\ Ingested /\ KeysAbsent) =>
     /\ TransformReturned
     /\ \A q \in Range(QUERIES) :
          \/ reports[q].status = "no such table"
          \/ reports[q].status = "ok" /\ reports[q].rows = {}

(* C6 amended: after a run in which the key columns were missing, the       *)
(* reports are still attempted and the warehouse is as the run found it:    *)
(* with no tables the first report fails with "no such table" and ends the  *)
(* run; with the tables of an earlier successful run every report succeeds  *)
(* on those tables, and the monthly totals are not empty.                   *)
C6_ReportsOverOldStore ==
  /\ [](((pc \notin {"ingest", "transform"}) /\ Ingested /\ KeysAbsent) =>
          /\ TransformReturned
          /\ (pc \in {"done", "raised"} /\ ~store["FACT_EXPORTACIONES"].exists) =>
                /\ pc = "raised"
                /\ reports[QUERIES[1]] = NoSuchTable
                /\ \A i \in 2..Len(QUERIES) : reports[QUERIES[i]] = NotRun
          /\ (pc \in {"done", "raised"} /\ store["FACT_EXPORTACIONES"].exists) =>
                /\ pc = "done"
                /\ \A q \in Range(QUERIES) :
                     reports[q].status = "ok" /\ reports[q].rows = RunQuery(store, q)
                /\ reports["q2"].rows # {})
  /\ [][(pc \in {"semantic", "analyze"} /\ KeysAbsent) => store' = store]_vars

\* The failed run reported the totals of the earlier run.
C6_Witness ==
  /\ pc = "done"
  /\ KeysAbsent
  /\ runs > 1
  /\ reports["q2"].rows # {}

(* C7: in a run where some period's file is missing and some period has     *)
(* data with both key columns, each missing period is staged as the empty   *)
(* dataset, nothing is raised at any stage, and the integrated dataset      *)
(* holds exactly the lines of the periods whose files are present.          *)
MissingPeriods == {m \in MonthSet : ~raw[m].exists}

DataPeriods ==
  {m \in MonthSet : raw[m].exists /\ \E i \in DOMAIN raw[m].rows :
                       \E j \in DOMAIN raw[m].rows[i] : ~IsNull(raw[m].rows[i][j])}

RawKeysPresent ==
  /\ \E m \in DataPeriods : \E j \in DOMAIN raw[m].cols : raw[m].cols[j] = KEY_FORM
  /\ \E m \in DataPeriods : \E j \in DOMAIN raw[m].cols : raw[m].cols[j] = KEY_SERIE

C7_MissingSkipped ==
  (MissingPeriods # {} /\ DataPeriods # {} /\ RawKeysPresent) =>
     /\ pc # "raised"
     /\ \A k \in DOMAIN staging_dfs :
          staging_dfs[k].month \in MissingPeriods => staging_dfs[k].df = EmptyFrame
     /\ pc \in {"semantic", "analyze", "done"} =>
          /\ Len(core_df.rows) = Cardinality(DataPeriods)
          /\ {CoreCell(i, FOB_USD) : i \in CoreRows}
               = {Num(Tag(Idx(m), 1)) : m \in DataPeriods}

\* Two periods with data and one missing file: the run is done over two rows.
C7_Witness ==
  /\ pc = "done"
  /\ Cardinality(MissingPeriods) = 1
  /\ Cardinality(DataPeriods) = 2
  /\ Len(core_df.rows) = 2
  /\ \A q \in Range(QUERIES) : reports[q].status = "ok"

(* C8: for a non-empty integrated dataset each dimension table holds one    *)
(* row per distinct tuple of its attributes in the dataset, and its         *)
(* surrogate keys are 1..n, each once.                                      *)
CoreTuples(attrs) == {[c \in DOMAIN attrs |-> CoreCell(i, attrs[c])] : i \in CoreRows}

TableCell(t, i, name) == CellOf(store[t], store[t].rows[i], name)

TableTuple(t, i, attrs) == [c \in DOMAIN attrs |-> TableCell(t, i, attrs[c])]

DimensionExact(t, attrs, id) ==
  LET n == Cardinality(CoreTuples(attrs))
  IN /\ store[t].exists
     /\ Len(store[t].rows) = n
     /\ {TableTuple(t, i, attrs) : i \in DOMAIN store[t].rows} = CoreTuples(attrs)
     /\ {TableCell(t, i, id) : i \in DOMAIN store[t].rows} = {Num(v) : v \in 1..n}

C8_Dimensions ==
  BuiltThisRun =>
     /\ DimensionExact("DIM_TIME", TIME_COLS, "TIME_ID")
     /\ DimensionExact("DIM_EMPRESA", EMPRESA_COLS, "EMPRESA_ID")
     /\ DimensionExact("DIM_PAIS", PAIS_COLS, "PAIS_ID")
     /\ DimensionExact("DIM_MERCANCIA", MERCANCIA_COLS, "MERCANCIA_ID")

\* Three records of one exporter, over two dates (one null) and two
\* countries.
C8_Witness ==
  /\ BuiltThisRun
  /\ Len(core_df.rows) = 3
  /\ Len(store["DIM_EMPRESA"].rows) = 1
  /\ Len(store["DIM_TIME"].rows) = 2
  /\ Len(store["DIM_PAIS"].rows) = 2
  /\ \E i \in DOMAIN store["DIM_TIME"].rows : IsNull(TableCell("DIM_TIME", i, FECHA))

(* C9: for a non-empty integrated dataset the fact table has exactly one    *)
(* row per integrated record, in order, null attributes included; each      *)
(* surrogate key of the row names the one dimension row that holds the      *)
(* record's attributes, and the row carries the record's measures and form  *)
(* number.                                                                  *)
FactRefers(i, t, attrs, id) ==
  /\ \E d \in DOMAIN store[t].rows :
       /\ TableCell(t, d, id) = TableCell("FACT_EXPORTACIONES", i, id)
       /\ TableTuple(t, d, attrs) = [c \in DOMAIN attrs |-> CoreCell(i, attrs[c])]
  /\ \A d, e \in DOMAIN store[t].rows :
       TableCell(t, d, id) = TableCell(t, e, id) => d = e

C9_FactPerRecord ==
  BuiltThisRun =>
     /\ Len(store["FACT_EXPORTACIONES"].rows) = Len(core_df.rows)
     /\ store["FACT_EXPORTACIONES"].cols = FACT_COLS
     /\ \A i \in CoreRows :
          /\ FactRefers(i, "DIM_TIME", TIME_COLS, "TIME_ID")
          /\ FactRefers(i, "DIM_EMPRESA", EMPRESA_COLS, "EMPRESA_ID")
          /\ FactRefers(i, "DIM_PAIS", PAIS_COLS, "PAIS_ID")
          /\ FactRefers(i, "DIM_MERCANCIA", MERCANCIA_COLS, "MERCANCIA_ID")
          /\ \A c \in {"VALOR_FOB_USD", "PESO_NETO_KGS", "CANTIDAD_UNIDADES_FISICAS",
                       "NUMERO_FORMULARIO"} :
               TableCell("FACT_EXPORTACIONES", i, c) = CoreCell(i, c)

\* Records with a null date, a null country code and a null subheading
\* stand in the fact table beside a record without nulls.
C9_Witness ==
  /\ BuiltThisRun
  /\ Len(store["FACT_EXPORTACIONES"].rows) = 3
  /\ \E i, j \in CoreRows :
       /\ i # j
       /\ IsNull(CoreCell(i, FECHA)) /\ IsNull(CoreCell(i, "SUBPARTIDA"))
       /\ IsNull(CoreCell(j, FECHA)) /\ IsNull(CoreCell(j, "COD_PAIS_DESTINO"))
  /\ \E i \in CoreRows : ~IsNull(CoreCell(i, FECHA)) /\ ~IsNull(CoreCell(i, "DIREC_EXPORTADOR"))

(* C10: in every non-empty dataset transform_to_core returns, the five      *)
(* measure columns and PAIS_DESTINO_FINAL hold no null: a measure that was  *)
(* a number, or the text of one, is that number and any other is 0; a       *)
(* country name that was given is unchanged and a missing one is "Unknown". *)
SourceCell(i, name) ==
  LET m == MONTHS[CoreCell(i, KEY_FORM).n]
      f == raw[m]
  IN CellOf(f, f.rows[CoreCell(i, KEY_SERIE).n], name)

CleanMeasure(c) ==
  IF c.k = "num" THEN c
  ELSE IF c.k = "str" /\ c.s \in {"12", "250"} THEN Num(IF c.s = "12" THEN 12 ELSE 250)
  ELSE Num(0)

C10_NoNulls ==
  (TransformReturned /\ ~IsEmpty(core_df)) =>
     \A i \in CoreRows :
        /\ \A c \in Range(numeric_cols) :
             /\ HasCol(core_df, c)
             /\ CoreCell(i, c).k = "num"
             /\ CoreCell(i, c) = CleanMeasure(SourceCell(i, c))
        /\ HasCol(core_df, PAIS)
        /\ ~IsNull(CoreCell(i, PAIS))
        /\ CoreCell(i, PAIS) = IF IsNull(SourceCell(i, PAIS)) THEN Str("Unknown")
                               ELSE SourceCell(i, PAIS)

\* A returned row whose source had a blank measure, a non-numeric one, the
\* text of a number and no country name.
C10_Witness ==
  /\ TransformReturned
  /\ \E i \in CoreRows :
       /\ IsNull(SourceCell(i, "CANTIDAD_UNIDADES_FISICAS"))
       /\ SourceCell(i, "PESO_BRUTO_KGS") = Str("n/a")
       /\ SourceCell(i, "PESO_NETO_KGS") = Str("12")
       /\ IsNull(SourceCell(i, PAIS))
       /\ CoreCell(i, PAIS) = Str("Unknown")
  /\ \E i \in CoreRows : SourceCell(i, PAIS) = Str("USA")

====
